---- MODULE Spec2Model ----
(***************************************************************************)
(* Model of app.py: a Flask process that loads an ONNX classifier at       *)
(* startup (init_model, __main__) and serves GET / (hello) and             *)
(* POST /predict (predict) from concurrently running request threads.      *)
(***************************************************************************)
EXTENDS Integers, Sequences, FiniteSets, TLC

\* ---------------------------------------------------------------- bounds
\* Request-handling threads of the server.
NumWorkers == 2
\* Widest output vector of a model artifact in Spec.
MaxWidth == 3
\* Output values are the multiples 0..MaxProb of 1/MaxProb (ties included).
MaxProb == 1

Workers == 1..NumWorkers
Probs == 0..MaxProb

\* ------------------------------------------------------ program constants
\* CONFIGURATION["CLASS_NAMES"]
CLASS_NAMES ==
  << "ACCESSORIES", "BRACELETS", "CHAIN", "CHARMS", "EARRINGS",
     "ENGAGEMENT RINGS", "ENGAGEMENT SET", "FASHION RINGS", "NECKLACES",
     "WEDDING BANDS" >>

\* onnx_session = None
None == << >>

\* ------------------------------------------------------------ data shapes
\* Arrays by shape: "rgb" is a well-formed HxWx3 picture, "gray" a well-formed
\* HxW picture, "empty" an array without pixels, "ragged" a nested list that
\* is no rectangular array.
NoImage == "none"
DataPayloads == { "rgb", "gray", "empty", "ragged" }
\* What requests.get + Image.open(...).convert('RGB') can produce for a URL.
FetchOutcomes == { "rgb", "unreachable", "notimage" }

NoTensor == [rank |-> 0]

Vectors(n) == [1..n -> Probs]
RECURSIVE SumTo(_, _)
SumTo(v, n) == IF n = 0 THEN 0 ELSE v[n] + SumTo(v, n - 1)
\* A model artifact: the output vector it computes for the RGB picture, in
\* Spec a distribution over up to MaxWidth classes in units of 1/MaxProb.
Models == UNION { { v \in Vectors(n) : SumTo(v, n) = MaxProb } : n \in 1..MaxWidth }
\* Output widths around the catalog size, for the top-3 selection alone.
TopKModels == UNION { Vectors(n) : n \in 0..(Len(CLASS_NAMES) + 1) }

NoRequest == [route |-> "none", kind |-> "none", keys |-> {}, image_data |-> NoImage]
HelloRequest == [route |-> "/", kind |-> "none", keys |-> {}, image_data |-> NoImage]
InlineRequest(d) ==
  [route |-> "/predict", kind |-> "object", keys |-> {"image_data"}, image_data |-> d]
PredictRequests ==
  { [route |-> "/predict", kind |-> k, keys |-> {}, image_data |-> NoImage] :
      k \in {"unparseable", "null"} }
  \cup
  { [route |-> "/predict", kind |-> "object", keys |-> ks, image_data |-> NoImage] :
      ks \in { {}, {"image_url"} } }
  \cup
  { InlineRequest(d) : d \in DataPayloads }
  \cup
  { [route |-> "/predict", kind |-> "object", keys |-> {"image_url", "image_data"},
     image_data |-> "rgb"] }

\* jsonify(...) , status
Response(status, error, top3, text) ==
  [status |-> status, error |-> error, top3 |-> top3, text |-> text]
NoResponse == Response(0, "", << >>, "")
ErrorResponse(status, msg) == Response(status, msg, << >>, "")

\* An exception: the step that raised it and str(e).
NoException == << "", "" >>

\* ------------------------------------------------------------------ state
VARIABLES
  artifact,       \* the file at LOCAL_MODEL_PATH: <<"absent">>, <<"corrupt">>, <<"valid", m>>
  argsortTies,    \* how this build's np.argsort orders equal values
  main,           \* position of __main__: "boot", "initialized", "serving", "exited"
  onnx_session,   \* the global handle: None or <<m>>
  sessionWrites,  \* number of assignments to onnx_session so far
  wpc,            \* per thread: "idle", "resolve", "infer", "top3", "done"
  wreq,           \* per thread: the request being handled
  wimage,         \* per thread: local `image` after preprocess_image
  wpred,          \* per thread: local `predictions`
  wexc,           \* per thread: the exception raised while handling
  wresp           \* per thread: the response returned

vars == << artifact, argsortTies, main, onnx_session, sessionWrites,
           wpc, wreq, wimage, wpred, wexc, wresp >>
env == << artifact, argsortTies >>
proc == << main, onnx_session, sessionWrites >>
locals == << wreq, wimage, wpred, wexc, wresp >>

Artifacts == { << "absent" >>, << "corrupt" >> } \cup { << "valid", m >> : m \in Models }
TieOrders == { "stable", "reversed" }

IdleWorkers ==
  /\ wpc = [w \in Workers |-> "idle"]
  /\ wreq = [w \in Workers |-> NoRequest]
  /\ wimage = [w \in Workers |-> NoTensor]
  /\ wpred = [w \in Workers |-> << >>]
  /\ wexc = [w \in Workers |-> NoException]
  /\ wresp = [w \in Workers |-> NoResponse]

Init ==
  /\ artifact \in Artifacts
  /\ argsortTies \in TieOrders
  /\ main = "boot"
  /\ onnx_session = None
  /\ sessionWrites = 0
  /\ IdleWorkers

\* ---------------------------------------------------------------- startup
\* init_model without the os.path.exists test: the missing file makes
\* InferenceSession raise, which the except clause prints and drops.
init_model_unchecked ==
  /\ main = "boot"
  /\ IF artifact[1] \in {"absent", "corrupt"}
       THEN /\ main' = "initialized"
            /\ UNCHANGED << onnx_session, sessionWrites >>
       ELSE /\ main' = "initialized"
            /\ onnx_session' = << artifact[2] >>
            /\ sessionWrites' = sessionWrites + 1
  /\ UNCHANGED << env, wpc, locals >>

\* init_model(), called from __main__. A FileNotFoundError leaves __main__
\* before app.run; an exception of InferenceSession is printed and dropped.
init_model ==
  /\ main = "boot"
  /\ IF artifact[1] = "absent"
       THEN /\ main' = "exited"
            /\ UNCHANGED << onnx_session, sessionWrites >>
       ELSE IF artifact[1] = "corrupt"
         THEN /\ main' = "initialized"
              /\ UNCHANGED << onnx_session, sessionWrites >>
         ELSE /\ main' = "initialized"
              /\ onnx_session' = << artifact[2] >>
              /\ sessionWrites' = sessionWrites + 1
  /\ UNCHANGED << env, wpc, locals >>

\* app.run(debug=False)
app_run ==
  /\ main = "initialized"
  /\ main' = "serving"
  /\ UNCHANGED << env, onnx_session, sessionWrites, wpc, locals >>

\* ------------------------------------------------- POST /predict, pure parts
Raise(msg) == [kind |-> "raise", exc |-> msg, val |-> << >>]
Return(val) == [kind |-> "ok", exc |-> "", val |-> << val >>]
Value(r) == r.val[1]

\* data = request.get_json(): raises on a body that is no JSON document,
\* returns None for the JSON document null, the dict for a JSON object.
get_json(req) ==
  IF req.kind = "unparseable"
    THEN Raise("400 Bad Request: Failed to decode JSON object")
    ELSE Return(req)

\* np.array(data['image_data'], dtype=np.uint8)
np_array(payload) ==
  IF payload = "ragged"
    THEN Raise("setting an array element with a sequence.")
    ELSE Return(payload)

\* requests.get(url); Image.open(BytesIO(content)).convert('RGB')
fetch_image(fetched) ==
  IF fetched = "unreachable" THEN Raise("Max retries exceeded with url")
  ELSE IF fetched = "notimage" THEN Raise("cannot identify image file")
  ELSE Return(fetched)

\* The if / elif without the else: data['image_data'] is read unguarded.
resolve_image_unguarded(req, fetched) ==
  LET data == get_json(req) IN
  IF data.kind = "raise" THEN data
  ELSE IF req.kind = "null" THEN Raise("argument of type 'NoneType' is not iterable")
  ELSE IF "image_url" \in req.keys THEN fetch_image(fetched)
  ELSE IF "image_data" \in req.keys THEN np_array(req.image_data)
  ELSE Raise("'image_data'")

\* The if / elif / else over the request's fields; kind "400" is the early
\* return of the else branch.
resolve_image(req, fetched) ==
  LET data == get_json(req) IN
  IF data.kind = "raise" THEN data
  ELSE IF req.kind = "null" THEN Raise("argument of type 'NoneType' is not iterable")
  ELSE IF "image_url" \in req.keys THEN fetch_image(fetched)
  ELSE IF "image_data" \in req.keys THEN np_array(req.image_data)
  ELSE [kind |-> "400", exc |-> "", val |-> << >>]

\* preprocess_image(image): cv2.resize rejects an array without pixels; an
\* HxWx3 picture becomes a (1,256,256,3) tensor, an HxW picture (1,256,256).
preprocess_image(image) ==
  IF image = "empty" THEN Raise("OpenCV: (-215:Assertion failed) !ssize.empty()")
  ELSE IF image = "gray" THEN Return([rank |-> 3])
  ELSE Return([rank |-> 4])

\* onnx_session.get_inputs() / get_outputs() / run(...)[0]: the model takes a
\* rank-4 tensor.
run_session(session, tensor) ==
  IF session = None THEN Raise("'NoneType' object has no attribute 'get_inputs'")
  ELSE IF tensor.rank # 4 THEN Raise("Invalid rank for input")
  ELSE Return(session[1])

\* np.argsort(predictions): positions (from 0) by ascending value; the order
\* of equal values is fixed by the build, not by the API.
Before(v, ties, p, q) ==
  \/ v[p + 1] < v[q + 1]
  \/ /\ v[p + 1] = v[q + 1]
     /\ IF ties = "stable" THEN p < q ELSE p > q

\* Position p put into s, a sequence of positions in ascending order.
RECURSIVE InsertPosition(_, _, _, _)
InsertPosition(s, v, ties, p) ==
  IF s = << >> THEN << p >>
  ELSE IF Before(v, ties, p, Head(s)) THEN << p >> \o s
  ELSE << Head(s) >> \o InsertPosition(Tail(s), v, ties, p)

RECURSIVE ArgsortPrefix(_, _, _)
ArgsortPrefix(v, ties, n) ==
  IF n = 0 THEN << >>
  ELSE InsertPosition(ArgsortPrefix(v, ties, n - 1), v, ties, n - 1)

argsort(v, ties) == ArgsortPrefix(v, ties, Len(v))

\* s[-3:]
last_three(s) == SubSeq(s, IF Len(s) > 3 THEN Len(s) - 2 ELSE 1, Len(s))

\* s[::-1]
RECURSIVE reversed(_)
reversed(s) == IF s = << >> THEN << >> ELSE Append(reversed(Tail(s)), Head(s))

\* The selection without [::-1].
top_3_indices_ascending(predictions, ties) == last_three(argsort(predictions, ties))

top_3_indices(predictions, ties) == reversed(last_three(argsort(predictions, ties)))

\* A lookup that wraps around the catalog instead of raising.
class_name_wrapped(index) == Return(CLASS_NAMES[(index % Len(CLASS_NAMES)) + 1])

\* CONFIGURATION['CLASS_NAMES'][index], index >= 0
class_name_at(index) ==
  IF index < Len(CLASS_NAMES) THEN Return(CLASS_NAMES[index + 1])
  ELSE Raise("list index out of range")

\* From predictions[0] to the body of the 200 response.
top_3_classes_predictions(predictions, ties) ==
  LET idx == top_3_indices(predictions, ties)
      probabilities == [k \in 1..Len(idx) |-> predictions[idx[k] + 1]]
      looked == [k \in 1..Len(idx) |-> class_name_at(idx[k])]
  IN IF \E k \in 1..Len(idx) : looked[k].kind = "raise"
       THEN Raise("list index out of range")
     ELSE IF Len(idx) < 3
       THEN Raise("list index out of range")
     ELSE Return([i \in 1..3 |->
                   [class_name |-> Value(looked[i]), probability |-> probabilities[i]]])

\* -------------------------------------------------- POST /predict, by steps
Finish(w, exc, resp) ==
  /\ wpc' = [wpc EXCEPT ![w] = "done"]
  /\ wexc' = [wexc EXCEPT ![w] = exc]
  /\ wresp' = [wresp EXCEPT ![w] = resp]

\* predict() of the first two revisions: no test of the handle.
receive_predict_unchecked(w) ==
  /\ main = "serving"
  /\ wpc[w] = "idle"
  /\ \E req \in PredictRequests : wreq' = [wreq EXCEPT ![w] = req]
  /\ wpc' = [wpc EXCEPT ![w] = "resolve"]
  /\ UNCHANGED << env, proc, wimage, wpred, wexc, wresp >>

\* predict() creating its InferenceSession on every request.
receive_predict_reload(w) ==
  /\ main = "serving"
  /\ wpc[w] = "idle"
  /\ artifact[1] = "valid"
  /\ \E req \in PredictRequests : wreq' = [wreq EXCEPT ![w] = req]
  /\ onnx_session' = << artifact[2] >>
  /\ sessionWrites' = sessionWrites + 1
  /\ wpc' = [wpc EXCEPT ![w] = "resolve"]
  /\ UNCHANGED << env, main, wimage, wpred, wexc, wresp >>

\* Flask dispatches a POST /predict to a thread, which enters predict():
\* if onnx_session is None: return 500
receive_predict(w) ==
  /\ main = "serving"
  /\ wpc[w] = "idle"
  /\ \E req \in PredictRequests : wreq' = [wreq EXCEPT ![w] = req]
  /\ IF onnx_session = None
       THEN Finish(w, NoException, ErrorResponse(500, "Model not loaded"))
       ELSE /\ wpc' = [wpc EXCEPT ![w] = "resolve"]
            /\ UNCHANGED << wexc, wresp >>
  /\ UNCHANGED << env, proc, wimage, wpred >>

\* get_json, the if / elif / else, preprocess_image; exceptions go to the
\* outer except.
resolve_input(w) ==
  /\ wpc[w] = "resolve"
  /\ \E fetched \in FetchOutcomes :
       LET r == resolve_image(wreq[w], fetched) IN
       IF r.kind = "raise"
         THEN /\ Finish(w, << "resolve", r.exc >>, ErrorResponse(500, r.exc))
              /\ UNCHANGED wimage
       ELSE IF r.kind = "400"
         THEN /\ Finish(w, NoException,
                        ErrorResponse(400, "No valid input image provided."))
              /\ UNCHANGED wimage
       ELSE LET t == preprocess_image(Value(r)) IN
            IF t.kind = "raise"
              THEN /\ Finish(w, << "preprocess", t.exc >>, ErrorResponse(500, t.exc))
                   /\ UNCHANGED wimage
              ELSE /\ wimage' = [wimage EXCEPT ![w] = Value(t)]
                   /\ wpc' = [wpc EXCEPT ![w] = "infer"]
                   /\ UNCHANGED << wexc, wresp >>
  /\ UNCHANGED << env, proc, wreq, wpred >>

\* Inference on an image kept in one buffer shared by the threads (thread 1's).
infer_shared_image(w) ==
  /\ wpc[w] = "infer"
  /\ LET r == run_session(onnx_session, wimage[1]) IN
     IF r.kind = "raise"
       THEN /\ Finish(w, << "infer", r.exc >>,
                      ErrorResponse(500, "Error during inference: " \o r.exc))
            /\ UNCHANGED wpred
       ELSE /\ wpred' = [wpred EXCEPT ![w] = Value(r)]
            /\ wpc' = [wpc EXCEPT ![w] = "top3"]
            /\ UNCHANGED << wexc, wresp >>
  /\ UNCHANGED << env, proc, wreq, wimage >>

\* Inference without the inner try: the outer except reports str(e).
infer_outer_except(w) ==
  /\ wpc[w] = "infer"
  /\ LET r == run_session(onnx_session, wimage[w]) IN
     IF r.kind = "raise"
       THEN /\ Finish(w, << "infer", r.exc >>, ErrorResponse(500, r.exc))
            /\ UNCHANGED wpred
       ELSE /\ wpred' = [wpred EXCEPT ![w] = Value(r)]
            /\ wpc' = [wpc EXCEPT ![w] = "top3"]
            /\ UNCHANGED << wexc, wresp >>
  /\ UNCHANGED << env, proc, wreq, wimage >>

\* The inner try: the session is read here, its exception has its own message.
infer(w) ==
  /\ wpc[w] = "infer"
  /\ LET r == run_session(onnx_session, wimage[w]) IN
     IF r.kind = "raise"
       THEN /\ Finish(w, << "infer", r.exc >>,
                      ErrorResponse(500, "Error during inference: " \o r.exc))
            /\ UNCHANGED wpred
       ELSE /\ wpred' = [wpred EXCEPT ![w] = Value(r)]
            /\ wpc' = [wpc EXCEPT ![w] = "top3"]
            /\ UNCHANGED << wexc, wresp >>
  /\ UNCHANGED << env, proc, wreq, wimage >>

\* Top-3 selection and the 200 response; exceptions go to the outer except.
select_top3(w) ==
  /\ wpc[w] = "top3"
  /\ LET r == top_3_classes_predictions(wpred[w], argsortTies) IN
     IF r.kind = "raise"
       THEN Finish(w, << "top3", r.exc >>, ErrorResponse(500, r.exc))
       ELSE Finish(w, NoException, Response(200, "", Value(r), ""))
  /\ UNCHANGED << env, proc, wreq, wimage, wpred >>

\* GET /
hello(w) ==
  /\ main = "serving"
  /\ wpc[w] = "idle"
  /\ wreq' = [wreq EXCEPT ![w] = HelloRequest]
  /\ Finish(w, NoException,
            Response(200, "", << >>,
                     "Hello! Welcome to product type classification API with ONNX."))
  /\ UNCHANGED << env, proc, wimage, wpred >>

\* The client has read the response; the handler's locals are gone and the
\* thread is free for the next request.
respond(w) ==
  /\ wpc[w] = "done"
  /\ wpc' = [wpc EXCEPT ![w] = "idle"]
  /\ wreq' = [wreq EXCEPT ![w] = NoRequest]
  /\ wimage' = [wimage EXCEPT ![w] = NoTensor]
  /\ wpred' = [wpred EXCEPT ![w] = << >>]
  /\ wexc' = [wexc EXCEPT ![w] = NoException]
  /\ wresp' = [wresp EXCEPT ![w] = NoResponse]
  /\ UNCHANGED << env, proc >>

Next ==
  \/ init_model
  \/ app_run
  \/ \E w \in Workers : receive_predict(w)
  \/ \E w \in Workers : resolve_input(w)
  \/ \E w \in Workers : infer(w)
  \/ \E w \in Workers : select_top3(w)
  \/ \E w \in Workers : hello(w)
  \/ \E w \in Workers : respond(w)

Spec == Init /\ [][Next]_vars

\* ------------------------------------------- the top-3 selection on its own
\* A serving process whose model computes any vector of a width up to one
\* past the catalog, with one thread about to run inference on an RGB picture.
InitTopK ==
  /\ \E m \in TopKModels :
       /\ artifact = << "valid", m >>
       /\ onnx_session = << m >>
  /\ argsortTies \in TieOrders
  /\ main = "serving"
  /\ sessionWrites = 1
  /\ wpc = [w \in Workers |-> IF w = 1 THEN "infer" ELSE "idle"]
  /\ wreq = [w \in Workers |-> IF w = 1 THEN InlineRequest("rgb") ELSE NoRequest]
  /\ wimage = [w \in Workers |-> IF w = 1 THEN [rank |-> 4] ELSE NoTensor]
  /\ wpred = [w \in Workers |-> << >>]
  /\ wexc = [w \in Workers |-> NoException]
  /\ wresp = [w \in Workers |-> NoResponse]

NextTopK ==
  \/ \E w \in Workers : infer(w)
  \/ \E w \in Workers : select_top3(w)

SpecTopK == InitTopK /\ [][NextTopK]_vars

\* ------------------------------------------------------------------ claims
Predicting(w) == wreq[w].route = "/predict"
Answered(w) == wpc[w] = "done" /\ Predicting(w)
InlineOnly(w) == Predicting(w) /\ wreq[w].keys = {"image_data"}
NotLoaded == ErrorResponse(500, "Model not loaded")
NoInput == ErrorResponse(400, "No valid input image provided.")
\* Position (from 1) of a name in the catalog.
Pos(name) == CHOOSE i \in 1..Len(CLASS_NAMES) : CLASS_NAMES[i] = name
CatalogNames == { CLASS_NAMES[i] : i \in 1..Len(CLASS_NAMES) }

\* C1: a POST /predict that finds onnx_session None is answered 500
\* "Model not loaded" whatever its body, and nothing of input resolution,
\* preprocessing or inference has run for it.
C1_ModelNotLoaded ==
  \A w \in Workers :
    (Predicting(w) /\ onnx_session = None) =>
      /\ wpc[w] = "done"
      /\ wresp[w] = NotLoaded
      /\ wimage[w] = NoTensor
      /\ wpred[w] = << >>
      /\ wexc[w] = NoException

\* C1 witness: with the handle None, a well-formed inline request and a
\* request without either field have both been answered "Model not loaded".
C1_Witness ==
  /\ onnx_session = None
  /\ \E w1, w2 \in Workers :
       /\ Answered(w1) /\ wreq[w1] = InlineRequest("rgb") /\ wresp[w1] = NotLoaded
       /\ Answered(w2) /\ wreq[w2].keys = {} /\ wresp[w2] = NotLoaded

\* C2 (amended): with the handle initialized, a POST /predict whose body is a
\* JSON object with neither image_url nor image_data is answered 400 with
\* exactly {"error": "No valid input image provided."}.
C2_NoInputLoaded ==
  \A w \in Workers :
    ( /\ Answered(w)
      /\ onnx_session # None
      /\ wreq[w].kind = "object"
      /\ wreq[w].keys = {} ) => wresp[w] = NoInput

\* C2 witness: such a request has been answered 400.
C2_Witness ==
  \E w \in Workers :
    /\ Answered(w) /\ onnx_session # None
    /\ wreq[w].kind = "object" /\ wreq[w].keys = {}
    /\ wresp[w].status = 400

\* C2 as stated: every POST /predict whose body has neither field is
\* answered 400 with that body.
C2_Original ==
  \A w \in Workers :
    (Answered(w) /\ wreq[w].keys = {}) => wresp[w] = NoInput

\* C3: in a 200 response the three probabilities are non-increasing, they are
\* the values at the three distinct positions the class names stand for, and
\* no other position of the output vector holds a value above the third.
C3_TopThreeSorted ==
  \A w \in Workers :
    (Answered(w) /\ wresp[w].status = 200) =>
      LET v == wpred[w]
          t == wresp[w].top3
          listed == { Pos(t[k].class_name) : k \in 1..3 }
      IN /\ Len(t) = 3
         /\ t[1].probability >= t[2].probability
         /\ t[2].probability >= t[3].probability
         /\ Cardinality(listed) = 3
         /\ \A k \in 1..3 : /\ Pos(t[k].class_name) \in 1..Len(v)
                            /\ v[Pos(t[k].class_name)] = t[k].probability
         /\ \A q \in (1..Len(v)) \ listed : v[q] <= t[3].probability

\* C3 witness: a 200 response for a vector as wide as the catalog whose
\* listed probabilities are not all equal.
C3_Witness ==
  \E w \in Workers :
    /\ Answered(w) /\ wresp[w].status = 200
    /\ Len(wpred[w]) = Len(CLASS_NAMES)
    /\ wresp[w].top3[1].probability > wresp[w].top3[3].probability

\* C4: a 200 response has exactly 3 entries, each class_name is a catalog
\* name and it is the catalog entry at a position of the output vector that
\* holds the entry's probability, whatever the width of the vector.
C4_CatalogNames ==
  \A w \in Workers :
    (Answered(w) /\ wresp[w].status = 200) =>
      /\ Len(wresp[w].top3) = 3
      /\ \A k \in 1..Len(wresp[w].top3) :
           LET e == wresp[w].top3[k] IN
           /\ e.class_name \in CatalogNames
           /\ Pos(e.class_name) <= Len(wpred[w])
           /\ wpred[w][Pos(e.class_name)] = e.probability

\* C4 witness: a 200 response for a vector wider than the catalog.
C4_Witness ==
  \E w \in Workers :
    /\ Answered(w) /\ wresp[w].status = 200
    /\ Len(wpred[w]) > Len(CLASS_NAMES)

\* C5 as stated: a request carrying both image_url and image_data never
\* reaches inference and never gets a 200 response.
C5_ExactlyOneField ==
  \A w \in Workers :
    (Predicting(w) /\ wreq[w].keys = {"image_url", "image_data"}) =>
      /\ wpc[w] \notin {"infer", "top3"}
      /\ wresp[w].status # 200

\* C6: with the artifact absent, __main__ ends in init_model: the server is
\* never started and no request is ever taken.
C6_AbsentFailsFast ==
  artifact = << "absent" >> =>
    /\ main \in {"boot", "exited"}
    /\ \A w \in Workers : wpc[w] = "idle" /\ wreq[w] = NoRequest

\* C6 witness: init_model has raised on the absent artifact.
C6_Witness == artifact = << "absent" >> /\ main = "exited"

\* C7: onnx_session is assigned at most once, only before app.run, and no
\* step taken while serving changes it.
C7_HandleWrittenOnce ==
  [][ /\ sessionWrites' <= 1
      /\ (onnx_session' # onnx_session => main = "boot")
      /\ (main = "serving" => onnx_session' = onnx_session)
      /\ (sessionWrites' # sessionWrites <=> onnx_session' # onnx_session) ]_vars

\* C7 witness: the handle was written once and two threads are inside
\* handlers at the same time, one of them between its two reads of the handle.
C7_Witness ==
  /\ main = "serving"
  /\ sessionWrites = 1
  /\ \E w1, w2 \in Workers :
       /\ w1 # w2
       /\ wpc[w1] = "infer"
       /\ wpc[w2] = "done" /\ wreq[w2] = HelloRequest

\* C8: with a loaded model, two answered POST /predict calls with the same
\* inline image_data carry the same response.
C8_Deterministic ==
  \A w1, w2 \in Workers :
    ( /\ onnx_session # None
      /\ Answered(w1) /\ InlineOnly(w1)
      /\ Answered(w2) /\ InlineOnly(w2)
      /\ wreq[w1].image_data = wreq[w2].image_data ) => wresp[w1] = wresp[w2]

\* C8 witness: two threads have answered the same inline RGB picture with 200.
C8_Witness ==
  \E w1, w2 \in Workers :
    /\ w1 # w2
    /\ Answered(w1) /\ wreq[w1] = InlineRequest("rgb") /\ wresp[w1].status = 200
    /\ Answered(w2) /\ wreq[w2] = InlineRequest("rgb") /\ wresp[w2].status = 200

\* C9 as stated: when loading the present artifact raises, the server is
\* never started.
C9_LoadFailureFatal == artifact = << "corrupt" >> => main # "serving"

\* C10 (amended): with the model loaded, every answered POST /predict has
\* status 200, 400 or 500; an exception raised while handling it gives 500
\* with body {"error": str(e)}, except an exception of the inference call,
\* which gives 500 with {"error": "Error during inference: " + str(e)};
\* a thread holds a response only when its handler has returned.
C10_CatchAll ==
  \A w \in Workers :
    /\ (wpc[w] # "done") => wresp[w] = NoResponse
    /\ (Answered(w) /\ onnx_session # None) =>
         /\ wresp[w].status \in {200, 400, 500}
         /\ (wexc[w] = NoException) => wresp[w].status \in {200, 400}
         /\ (wexc[w] # NoException) =>
              wresp[w] = ErrorResponse(500,
                           IF wexc[w][1] = "infer"
                             THEN "Error during inference: " \o wexc[w][2]
                             ELSE wexc[w][2])

\* C10 witness: an exception of the inference call has been answered.
C10_Witness ==
  \E w \in Workers :
    /\ Answered(w) /\ onnx_session # None
    /\ wexc[w][1] = "infer"
    /\ wresp[w].status = 500

\* C10 as stated: the body of the 500 is {"error": str(e)} for every
\* exception raised while handling.
C10_Original ==
  \A w \in Workers :
    (Answered(w) /\ onnx_session # None) =>
      /\ wresp[w].status \in {200, 400, 500}
      /\ (wexc[w] # NoException) => wresp[w] = ErrorResponse(500, wexc[w][2])

====
